---- MODULE Spec2Model ----
(***************************************************************************)
(* Model of the PiCar-X sensor-to-actuator pipeline of RobotSystems:       *)
(*   picarx/examples/line_following.py  Bus, Sensor, Interpreter, Control, *)
(*                                      follow_line                        *)
(*   picarx/ultrasonic.py               Sensor, Interpreter, Control       *)
(*   picarx/picarx_improved.py          Picarx (drive, _forward, ...)      *)
(*   picarx/motor.py                    Motor.set_speed                    *)
(*                                                                         *)
(* Python floats are modelled as exact rationals <<n, d>> (d > 0, lowest   *)
(* terms); None is the empty tuple; a sensor reading is a 3-tuple.         *)
(***************************************************************************)
EXTENDS Integers, Sequences, FiniteSets, TLC

\* ------------------------------------------------------------------------
\* Bounds of the model
\* ------------------------------------------------------------------------

\* work invocations counted after a stop signal (the counter saturates here)
MaxAfterStop == 2

\* ------------------------------------------------------------------------
\* Rational arithmetic
\* ------------------------------------------------------------------------

None == <<>>

Abs(x) == IF x < 0 THEN -x ELSE x

RECURSIVE GCD(_, _)
GCD(a, b) == IF b = 0 THEN a ELSE GCD(b, a % b)

Rat(n, d) ==
    LET s == IF d < 0 THEN -1 ELSE 1
        g == GCD(Abs(n), Abs(d))
    IN  <<(s * n) \div g, (s * d) \div g>>

RInt(i) == <<i, 1>>
RZero == RInt(0)
RAdd(a, b) == Rat(a[1] * b[2] + b[1] * a[2], a[2] * b[2])
RNeg(a) == <<-a[1], a[2]>>
RSub(a, b) == RAdd(a, RNeg(b))
RMul(a, b) == Rat(a[1] * b[1], a[2] * b[2])
RDiv(a, b) == Rat(a[1] * b[2], a[2] * b[1])
RAbs(a) == <<Abs(a[1]), a[2]>>
RLt(a, b) == a[1] * b[2] < b[1] * a[2]
RLe(a, b) == a[1] * b[2] <= b[1] * a[2]
RMin(a, b) == IF RLt(b, a) THEN b ELSE a
RMax(a, b) == IF RLt(a, b) THEN b ELSE a

\* ------------------------------------------------------------------------
\* Program constants
\* ------------------------------------------------------------------------

\* Interpreter.detect_direction(noise_thresh=10)
NoiseThresh == 10
\* Control.control(speed=50)
ControlSpeed == 50
\* follow_line(scale=50.0)
FollowScale == 50
\* Picarx._forward / _backward: largest angle used for the power scale
MaxScaleAngle == 40

\* Interpreter(sensitivity=0.5) in follow_line
DefaultSensitivity == <<1, 2>>

\* ------------------------------------------------------------------------
\* Pure functions of the pipeline
\* ------------------------------------------------------------------------

Max2(a, b) == IF a > b THEN a ELSE b

\* Sensor.read: [max(a - b, 0) for a, b in zip(raw, trim)]
SensorRead(raw, trim) == [i \in 1..3 |-> Max2(raw[i] - trim[i], 0)]

\* a constructor that stores the sensitivity argument without clamping it
InterpreterSensitivity_Unclamped(s, polarity) ==
    RMul(s, RInt(IF polarity THEN 1 ELSE -1))

\* a constructor that reads the polarity flag the other way round
InterpreterSensitivity_PolarityInverted(s, polarity) ==
    RMul(RMax(RZero, RMin(s, RInt(1))), RInt(IF polarity THEN -1 ELSE 1))

\* Interpreter.__init__: max(0, min(sensitivity, 1)) * (1 if polarity else -1)
InterpreterSensitivity(s, polarity) ==
    RMul(RMax(RZero, RMin(s, RInt(1))), RInt(IF polarity THEN 1 ELSE -1))

Ok(v) == [ok |-> TRUE, v |-> v, err |-> "none"]
Raise(e) == [ok |-> FALSE, v |-> None, err |-> e]

\* a detect_direction without the zero-to-one substitution
detect_direction_NoSubstitution(readings, noise_thresh, sensitivity) ==
    IF readings = None
    THEN Raise("TypeError")
    ELSE
      LET left == readings[1]
          middle == readings[2]
          right == readings[3]
      IN  IF Abs((left - middle) - (right - middle)) < noise_thresh
          THEN Ok(RZero)
          ELSE IF right - left > 0
               THEN IF middle + right = 0
                    THEN Raise("ZeroDivisionError")
                    ELSE Ok(RMul(RMul(Rat(middle - right, middle + right),
                                      RInt(-1)), sensitivity))
               ELSE IF middle + left = 0
                    THEN Raise("ZeroDivisionError")
                    ELSE Ok(RMul(Rat(middle - left, middle + left),
                                 sensitivity))

\* a detect_direction whose second branch divides the sum by the difference
detect_direction_InvertedRatio(readings, noise_thresh, sensitivity) ==
    IF readings = None
    THEN Raise("TypeError")
    ELSE
      LET r == [i \in 1..3 |-> IF readings[i] = 0 THEN readings[i] + 1
                                ELSE readings[i]]
          left == r[1]
          middle == r[2]
          right == r[3]
      IN  IF Abs((left - middle) - (right - middle)) < noise_thresh
          THEN Ok(RZero)
          ELSE IF right - left > 0
               THEN IF middle + right = 0
                    THEN Raise("ZeroDivisionError")
                    ELSE Ok(RMul(RMul(Rat(middle - right, middle + right),
                                      RInt(-1)), sensitivity))
               ELSE IF middle - left = 0
                    THEN Raise("ZeroDivisionError")
                    ELSE Ok(RMul(Rat(middle + left, middle - left),
                                 sensitivity))

\* Interpreter.detect_direction(readings, noise_thresh) with self.sensitivity
detect_direction(readings, noise_thresh, sensitivity) ==
    IF readings = None
    THEN Raise("TypeError")            \* iterating over None
    ELSE
      LET r == [i \in 1..3 |-> IF readings[i] = 0 THEN readings[i] + 1
                                ELSE readings[i]]
          left == r[1]
          middle == r[2]
          right == r[3]
      IN  IF Abs((left - middle) - (right - middle)) < noise_thresh
          THEN Ok(RZero)
          ELSE IF right - left > 0
               THEN IF middle + right = 0
                    THEN Raise("ZeroDivisionError")
                    ELSE Ok(RMul(RMul(Rat(middle - right, middle + right),
                                      RInt(-1)), sensitivity))
               ELSE IF middle + left = 0
                    THEN Raise("ZeroDivisionError")
                    ELSE Ok(RMul(Rat(middle - left, middle + left),
                                 sensitivity))

\* a write that keeps a message nobody has replaced (first value wins)
BusWrite_KeepFirst(message, msg) == IF message = None THEN msg ELSE message

\* Bus.write: self.message = msg
BusWrite(message, msg) == msg

\* Bus.read: return self.message
BusRead(message) == message


\* ------------------------------------------------------------------------
\* Obstacle avoidance (picarx/ultrasonic.py)
\* ------------------------------------------------------------------------

\* Sensor.read: max(self.car.get_distance(), 0)
UltrasonicRead(raw) == Max2(raw, 0)

\* a calculate_speed that also stops at exactly the minimum distance
calculate_speed_Inclusive(distance, min_distance) ==
    IF distance <= min_distance THEN 0 ELSE 1

\* Interpreter.calculate_speed: 0 if distance < self.min_distance else 1
calculate_speed(distance, min_distance) ==
    IF distance < min_distance THEN 0 ELSE 1

\* Control.control(speed_scalar): the positional arguments it passes to
\* car.drive, i.e. (self.speed * speed_scalar)
OAControlArgs(speed, speed_scalar) == <<RInt(speed * speed_scalar)>>

\* ------------------------------------------------------------------------
\* Line-following control (picarx/examples/line_following.py)
\* ------------------------------------------------------------------------

\* Control.control(angle, speed=50): the positional arguments it passes to
\* car.drive, i.e. (speed, angle * self.scale); angle * scale raises
\* TypeError when angle is None
LFControlArgs(angle, scale) ==
    IF angle = None
    THEN Raise("TypeError")
    ELSE Ok(<<RInt(ControlSpeed), RMul(angle, RInt(scale))>>)

\* ------------------------------------------------------------------------
\* Drive kinematics (picarx/picarx_improved.py, picarx/motor.py)
\* ------------------------------------------------------------------------

\* Python binds a call of drive(self, speed, angle): exactly two positional
\* arguments, otherwise TypeError before the body runs
DriveBind(args) ==
    IF Len(args) = 2 THEN Ok(args) ELSE Raise("TypeError")

\* a power scale that keeps falling beyond 40 degrees
PowerScale_Unclamped(current_angle) ==
    RDiv(RSub(RInt(100), RAbs(current_angle)), RInt(100))

\* power_scale = (100 - min(abs(angle), 40)) / 100.0
PowerScale(current_angle) ==
    LET a == RAbs(current_angle)
        c == IF RLt(RInt(MaxScaleAngle), a) THEN RInt(MaxScaleAngle) ELSE a
    IN  RDiv(RSub(RInt(100), c), RInt(100))

\* a _forward that reduces the same wheel whatever the sign of the angle
ForwardPowers_AlwaysLeft(speed, current_angle) ==
    IF current_angle # RZero
    THEN <<RMul(speed, PowerScale(current_angle)), RNeg(speed)>>
    ELSE <<speed, RNeg(speed)>>

\* Picarx._forward(speed): the speeds passed to <<left, right>>.set_speed
ForwardPowers(speed, current_angle) ==
    IF current_angle # RZero
    THEN IF RLt(RZero, current_angle)
         THEN <<RMul(speed, PowerScale(current_angle)), RNeg(speed)>>
         ELSE <<speed, RMul(RNeg(speed), PowerScale(current_angle))>>
    ELSE <<speed, RNeg(speed)>>

\* a _backward whose straight-line branch drives the wheels the forward way
BackwardPowers_StraightForward(speed, current_angle) ==
    IF current_angle # RZero
    THEN IF RLt(RZero, current_angle)
         THEN <<RNeg(speed), RMul(speed, PowerScale(current_angle))>>
         ELSE <<RMul(RNeg(speed), PowerScale(current_angle)), speed>>
    ELSE <<speed, RNeg(speed)>>

\* Picarx._backward(speed): the speeds passed to <<left, right>>.set_speed
BackwardPowers(speed, current_angle) ==
    IF current_angle # RZero
    THEN IF RLt(RZero, current_angle)
         THEN <<RNeg(speed), RMul(speed, PowerScale(current_angle))>>
         ELSE <<RMul(RNeg(speed), PowerScale(current_angle)), speed>>
    ELSE <<RNeg(speed), speed>>

\* Picarx.drive: if speed > 0: _forward(speed) else: _backward(-speed)
DrivePowers(speed, current_angle) ==
    IF RLt(RZero, speed)
    THEN ForwardPowers(speed, current_angle)
    ELSE BackwardPowers(RNeg(speed), current_angle)

\* a set_speed that subtracts the trim from a zero speed as well
MotorSetSpeed_TrimAtZero(speed, direction, mtrim) ==
    LET dir == IF RLe(RZero, speed) THEN direction ELSE -direction
        duty == RSub(RAbs(speed), RInt(mtrim))
    IN  [pin |-> IF dir < 0 THEN "high" ELSE "low", duty |-> duty]

\* Motor.set_speed(speed): direction pin level and PWM duty
MotorSetSpeed(speed, direction, mtrim) ==
    LET dir == IF RLe(RZero, speed) THEN direction ELSE -direction
        duty == IF RLt(<<1, 1000>>, RAbs(speed))
                THEN RSub(RAbs(speed), RInt(mtrim))
                ELSE speed
    IN  [pin |-> IF dir < 0 THEN "high" ELSE "low", duty |-> duty]


\* ------------------------------------------------------------------------
\* State of the threaded line-following program (follow_line)
\* ------------------------------------------------------------------------

Tasks == {"sensor", "interpreter", "control"}
Buses == {"sensor_bus", "control_bus"}
Sides == {"left", "right"}

\* raw ADC triples the photosensor channels can deliver
RawReadings == {<<100, 500, 100>>, <<50, 500, 900>>}

VARIABLES
    message,      \* Bus.message of each bus
    lock,         \* Bus._lock of each bus: "free" or the holder
    running,      \* self.running of each task object ("unset" before start)
    pc,           \* position of each task thread
    got,          \* value a task obtained from Bus.read (None once consumed)
    val,          \* arguments a task passes to Bus.write / car.drive (None
                  \* once the call has returned)
    err,          \* exception that ended a task ("none" otherwise)
    mainPc,       \* position of the main thread (follow_line, then atexit)
    trim,         \* Sensor.channel_{1,2,3}_trim
    turn_angle,   \* Picarx.turn_angle
    steer,        \* last angle commanded to the steering servo
    motor,        \* per wheel: direction pin level and PWM duty
    dcur,         \* current_angle local of _forward/_backward, per caller
    stopped,      \* history: stop() has cleared the task's running flag
    afterStop,    \* history: work invocations begun after that
    lastWrite,    \* history: argument of the latest completed Bus.write
    written,      \* history: arguments of all completed Bus.write calls
    driveCallers, \* history: control objects that have called car.drive
    lastCmd,      \* history: control object whose control step ended last
    lastDrive,    \* history: <<caller, speed, angle>> of the latest call of
                  \* car.drive whose arguments were bound (None if none)
    oaIn,         \* history: <<speed, scalar, turn_angle, raw distance,
                  \* distance read>> at the latest obstacle-avoidance
                  \* control step (None if none)
    fnIn,         \* name and arguments of the latest direct call of an
                  \* interpreter function (None if none)
    fnOut,        \* what that call returned or raised
    extraStops,   \* history: calls of stop() on a task made after its first
                  \* stop() returned
    callArgs,     \* history: <<speed, angle>> of each caller's latest direct
                  \* call of car.drive (None if none)
    calibrations, \* history: calls of Sensor.calibrate() made directly
    pan,          \* last angle commanded to the camera pan servo
    tilt,         \* last angle commanded to the camera tilt servo
    manPc,        \* position inside parallel_parking / k_turn
    manIn,        \* <<caller, maneuver, direction, speed>> of the maneuver
                  \* call (None if none)
    motor_direction, \* Motor.direction of the left and the right motor
    servo_trim,   \* steering_survo_trim, pan_servo_trim, tilt_servo_trim
    config_file,  \* the calibration store: the value last set for each
                  \* key (Unset if none)
    saves,        \* history: calls of the save_*_calibration methods
    sorter,       \* the attributes of the ColorSorter object
    sorterCalls   \* history: calls of start() and stop() on the ColorSorter

vars == <<message, lock, running, pc, got, val, err, mainPc, trim,
          turn_angle, steer, motor, dcur, stopped, afterStop, lastWrite,
          written, driveCallers, lastCmd, lastDrive, oaIn, fnIn, fnOut,
          extraStops, callArgs, calibrations, pan, tilt, manPc, manIn,
          motor_direction, servo_trim, config_file, saves, sorter,
          sorterCalls>>

fnVars == <<fnIn, fnOut>>
callVars == <<extraStops, callArgs, calibrations, sorter, sorterCalls>>
manVars == <<pan, tilt, manPc, manIn>>
calVars == <<motor_direction, servo_trim, config_file, saves>>
histCmd == <<driveCallers, lastCmd, lastDrive, oaIn>>

busVars == <<message, lock, lastWrite, written>>
carVars == <<turn_angle, steer, motor, dcur>>
histStop == <<stopped, afterStop>>

\* Picarx.__init__ with an empty configuration: trims 0, directions [1, 1]
SteeringTrim == 0
MotorDirection == [s \in Sides |-> 1]
MotorTrim == [s \in Sides |-> 0]

\* a wiring in which every writing task is handed the control bus
WrBus_Shared(t) == "control_bus"

\* the bus a task reads from / writes to (wiring of follow_line)
RdBus(t) == IF t = "interpreter" THEN "sensor_bus" ELSE "control_bus"
WrBus(t) == IF t = "sensor" THEN "sensor_bus" ELSE "control_bus"

\* camera servo trims of Picarx.__init__ with an empty configuration
PanTrim == 0
TiltTrim == 0

\* ------------------------------------------------------------------------
\* The ColorSorter of the arm (arm-pi/ArmPi/ArmPi/Functions/perception.py)
\* ------------------------------------------------------------------------

\* ColorSorter.__init__: the attributes it assigns. self.stop = False puts
\* an attribute named stop on the object; stop_running is not assigned
ColorSorterInit ==
    [target_color |-> "red",
     count |-> 0,
     stop |-> "False",
     color_list |-> <<>>,
     get_roi |-> FALSE,
     is_running |-> FALSE,
     detect_color |-> "None",
     start_pick_up |-> FALSE,
     start_count_t1 |-> TRUE,
     stop_running |-> "unset"]

\* ColorSorter.reset
ColorSorterReset(o) ==
    [o EXCEPT !.count = 0,
              !.stop_running = "False",
              !.color_list = <<>>,
              !.get_roi = FALSE,
              !.target_color = "()",
              !.detect_color = "None",
              !.start_pick_up = FALSE,
              !.start_count_t1 = TRUE]

\* ColorSorter.start: self.reset(); self.is_running = True
ColorSorterStart(o) ==
    [res |-> Ok(None),
     obj |-> [ColorSorterReset(o) EXCEPT !.is_running = TRUE]]

\* the body of the method ColorSorter.stop
ColorSorterStopBody(o) ==
    [o EXCEPT !.stop_running = "True", !.is_running = FALSE]

\* sorter.stop(): the attribute lookup finds the instance attribute before
\* the method of the class; calling a bool raises TypeError
ColorSorterStop(o) ==
    IF o.stop = "method"
    THEN [res |-> Ok(None),
          obj |-> ColorSorterStopBody(o)]
    ELSE [res |-> Raise("TypeError"), obj |-> o]

\* the keys of the calibration store, and the mark of a key never set
ConfigKeys == {"picarx_dir_servo", "picarx_cam_servo1", "picarx_cam_servo2",
               "picarx_dir_motor"}
Unset == "unset"

ServoTrims == [steering |-> SteeringTrim, pan |-> PanTrim, tilt |-> TiltTrim]

\* values handed to fileDB.set: a list of integers, or the text "%s" % value
\* of an integer (held as that integer); NotSet for a key never set
NotSet == [t |-> "unset", v |-> <<>>]
PyList(l) == [t |-> "list", v |-> l]
PyText(i) == [t |-> "str", v |-> <<i>>]

\* no second stop, no direct drive call, no maneuver yet; the camera servos
\* stand at their trims (Picarx.__init__: pan_servo.angle(pan_servo_trim))
NoCallsYet ==
    /\ extraStops = [t \in Tasks |-> 0]
    /\ callArgs = [c \in {"control", "oa"} |-> None]
    /\ calibrations = 0
    /\ sorter = ColorSorterInit
    /\ sorterCalls = 0
    /\ pan = RInt(PanTrim)
    /\ tilt = RInt(TiltTrim)
    /\ manPc = 0
    /\ manIn = None

CarInit ==
    /\ motor_direction = MotorDirection
    /\ servo_trim = ServoTrims
    /\ config_file = [k \in ConfigKeys |-> NotSet]
    /\ saves = 0
    /\ turn_angle = RZero
    /\ steer = RInt(SteeringTrim)
    /\ motor = [s \in Sides |-> [pin |-> "low", duty |-> RZero]]
    /\ dcur = [t \in {"control", "oa"} |-> RZero]

Init ==
    /\ message = [b \in Buses |-> None]
    /\ lock = [b \in Buses |-> "free"]
    /\ running = [t \in Tasks |-> "unset"]
    /\ pc = [t \in Tasks \cup {"oa"} |-> "unstarted"]
    /\ got = [t \in Tasks \cup {"oa"} |-> None]
    /\ val = [t \in Tasks \cup {"oa"} |-> None]
    /\ err = [t \in Tasks \cup {"oa"} |-> "none"]
    /\ mainPc = "calibrate"
    /\ trim = <<0, 0, 0>>
    /\ CarInit
    /\ stopped = [t \in Tasks |-> FALSE]
    /\ afterStop = [t \in Tasks |-> 0]
    /\ lastWrite = [b \in Buses |-> None]
    /\ written = [b \in Buses |-> {}]
    /\ driveCallers = {}
    /\ lastCmd = "none"
    /\ lastDrive = None
    /\ oaIn = None
    /\ fnIn = None
    /\ fnOut = Raise("none")
    /\ NoCallsYet


\* ------------------------------------------------------------------------
\* Main thread: follow_line, then the atexit handlers in reverse order of
\* registration (Control.stop, right motor, left motor, Interpreter.stop,
\* Sensor.stop)
\* ------------------------------------------------------------------------

MainOrder == <<"calibrate", "start_sensor", "start_interpreter",
               "start_control", "stop_control", "join_control",
               "exit_right", "exit_left", "stop_interpreter",
               "join_interpreter", "stop_sensor", "join_sensor", "done">>

MainNext(p) == MainOrder[(CHOOSE i \in 1..Len(MainOrder) : MainOrder[i] = p) + 1]

\* first statement a started thread executes: produce / produce_consume
\* begin with self.running = True, Control.consume with the loop test
FirstPc(t) == IF t = "control" THEN "loop" ELSE "init"

\* sensor.calibrate(): the trims become the current reading
Calibrate ==
    /\ mainPc = "calibrate"
    /\ \E raw \in RawReadings : trim' = SensorRead(raw, trim)
    /\ mainPc' = MainNext(mainPc)
    /\ UNCHANGED <<calVars, callVars, manVars, fnVars, busVars, running, pc, got, val, err, carVars, histStop,
                   histCmd>>

\* X.start(): self.running = True; thread.start()
Start(t) ==
    /\ mainPc = "start_" \o t
    /\ running' = [running EXCEPT ![t] = "true"]
    /\ pc' = [pc EXCEPT ![t] = FirstPc(t)]
    /\ mainPc' = MainNext(mainPc)
    /\ UNCHANGED <<calVars, callVars, manVars, fnVars, busVars, got, val, err, trim, carVars, histStop,
                   histCmd>>

\* X.stop(), first statement: self.running = False
StopFlag(t) ==
    /\ mainPc = "stop_" \o t
    /\ running' = [running EXCEPT ![t] = "false"]
    /\ stopped' = [stopped EXCEPT ![t] = TRUE]
    /\ mainPc' = MainNext(mainPc)
    /\ UNCHANGED <<calVars, callVars, manVars, fnVars, busVars, pc, got, val, err, trim, carVars, afterStop,
                   histCmd>>

\* X.stop(), second statement: thread.join() returns once the thread ended
Join(t) ==
    /\ mainPc = "join_" \o t
    /\ pc[t] \in {"done", "crashed"}
    /\ mainPc' = MainNext(mainPc)
    /\ UNCHANGED <<calVars, callVars, manVars, fnVars, busVars, running, pc, got, val, err, trim, carVars,
                   histStop, histCmd>>

\* atexit.register(self.set_speed, 0) of each Motor
ExitMotor(side) ==
    /\ mainPc = "exit_" \o side
    /\ motor' = [motor EXCEPT ![side] =
                    MotorSetSpeed(RZero, motor_direction[side], MotorTrim[side])]
    /\ mainPc' = MainNext(mainPc)
    /\ UNCHANGED <<calVars, callVars, manVars, fnVars, busVars, running, pc, got, val, err, trim, turn_angle,
                   steer, dcur, histStop, histCmd>>

\* ------------------------------------------------------------------------
\* Task threads
\* ------------------------------------------------------------------------

CountWork(t) ==
    afterStop' = [afterStop EXCEPT ![t] =
                    IF stopped[t] /\ @ < MaxAfterStop THEN @ + 1 ELSE @]

\* Sensor.produce / Interpreter.produce_consume: self.running = True
ProduceInit(t) ==
    /\ t \in {"sensor", "interpreter"}
    /\ pc[t] = "init"
    /\ running' = [running EXCEPT ![t] = "true"]
    /\ pc' = [pc EXCEPT ![t] = "loop"]
    /\ UNCHANGED <<calVars, callVars, manVars, fnVars, busVars, got, val, err, mainPc, trim, carVars, histStop,
                   histCmd>>

\* while self.running: (reached first, and again after time.sleep(delay))
LoopTest(t) ==
    /\ pc[t] = "loop"
    /\ pc' = [pc EXCEPT ![t] = IF running[t] = "true"
                               THEN (IF t = "sensor" THEN "read_sensor"
                                     ELSE "rd_acq")
                               ELSE "done"]
    /\ UNCHANGED <<calVars, callVars, manVars, fnVars, busVars, running, got, val, err, mainPc, trim, carVars,
                   histStop, histCmd>>

\* Sensor.produce: the argument self.read() of bus.write
SensorWork ==
    /\ pc["sensor"] = "read_sensor"
    /\ \E raw \in RawReadings :
          val' = [val EXCEPT !["sensor"] = SensorRead(raw, trim)]
    /\ pc' = [pc EXCEPT !["sensor"] = "wr_acq"]
    /\ CountWork("sensor")
    /\ UNCHANGED <<calVars, callVars, manVars, fnVars, busVars, running, got, err, mainPc, trim, carVars,
                   stopped, histCmd>>

\* an acquire that does not wait for the holder (no mutual exclusion)
LockAcquirable_Ignored(holder) == TRUE

\* threading.Lock: "with self._lock" proceeds only while nobody holds it
LockAcquirable(holder) == holder = "free"

\* a read that waits until the bus has been written (queue-like)
RdAcquire_WaitForWrite(t) ==
    /\ t \in {"interpreter", "control"}
    /\ pc[t] = "rd_acq"
    /\ message[RdBus(t)] # None
    /\ LockAcquirable(lock[RdBus(t)])
    /\ lock' = [lock EXCEPT ![RdBus(t)] = t]
    /\ pc' = [pc EXCEPT ![t] = "rd_cs"]
    /\ CountWork(t)
    /\ UNCHANGED <<calVars, callVars, manVars, fnVars, message, lastWrite, written, running,
                   got, val, err, mainPc, trim, carVars, stopped,
                   histCmd>>

\* Bus.read: with self._lock (acquire)
RdAcquire(t) ==
    /\ t \in {"interpreter", "control"}
    /\ pc[t] = "rd_acq"
    /\ LockAcquirable(lock[RdBus(t)])
    /\ lock' = [lock EXCEPT ![RdBus(t)] = t]
    /\ pc' = [pc EXCEPT ![t] = "rd_cs"]
    /\ CountWork(t)
    /\ UNCHANGED <<calVars, callVars, manVars, fnVars, message, lastWrite, written, running,
                   got, val, err, mainPc, trim, carVars, stopped,
                   histCmd>>

\* Bus.read: return self.message (and release of the lock)
RdCS(t) ==
    /\ t \in {"interpreter", "control"}
    /\ pc[t] = "rd_cs"
    /\ got' = [got EXCEPT ![t] = BusRead(message[RdBus(t)])]
    /\ lock' = [lock EXCEPT ![RdBus(t)] = "free"]
    /\ pc' = [pc EXCEPT ![t] = IF t = "interpreter" THEN "compute" ELSE "call"]
    /\ UNCHANGED <<calVars, callVars, manVars, fnVars, message, lastWrite, written, running, val, err,
                   mainPc, trim, carVars, histStop, histCmd>>

\* Interpreter.produce_consume: self.detect_direction(sensor_bus.read())
Compute ==
    /\ pc["interpreter"] = "compute"
    /\ LET r == detect_direction(got["interpreter"], NoiseThresh,
                    InterpreterSensitivity(DefaultSensitivity, TRUE))
       IN  IF r.ok
           THEN /\ val' = [val EXCEPT !["interpreter"] = r.v]
                /\ pc' = [pc EXCEPT !["interpreter"] = "wr_acq"]
                /\ err' = err
           ELSE /\ pc' = [pc EXCEPT !["interpreter"] = "crashed"]
                /\ err' = [err EXCEPT !["interpreter"] = r.err]
                /\ val' = val
    /\ got' = [got EXCEPT !["interpreter"] = None]
    /\ UNCHANGED <<calVars, callVars, manVars, fnVars, busVars, running, mainPc, trim, carVars, histStop,
                   histCmd>>

\* Bus.write: with self._lock (acquire)
WrAcquire(t) ==
    /\ t \in {"sensor", "interpreter"}
    /\ pc[t] = "wr_acq"
    /\ LockAcquirable(lock[WrBus(t)])
    /\ lock' = [lock EXCEPT ![WrBus(t)] = t]
    /\ pc' = [pc EXCEPT ![t] = "wr_cs"]
    /\ UNCHANGED <<calVars, callVars, manVars, fnVars, message, lastWrite, written, running,
                   got, val, err, mainPc, trim, carVars, histStop,
                   histCmd>>

\* Bus.write: self.message = msg (and release of the lock); the task then
\* sleeps and returns to the loop test
WrCS(t) ==
    /\ t \in {"sensor", "interpreter"}
    /\ pc[t] = "wr_cs"
    /\ message' = [message EXCEPT ![WrBus(t)] = BusWrite(@, val[t])]
    /\ lock' = [lock EXCEPT ![WrBus(t)] = "free"]
    /\ lastWrite' = [lastWrite EXCEPT ![WrBus(t)] = val[t]]
    /\ written' = [written EXCEPT ![WrBus(t)] = @ \cup {val[t]}]
    /\ pc' = [pc EXCEPT ![t] = "loop"]
    /\ val' = [val EXCEPT ![t] = None]
    /\ UNCHANGED <<calVars, callVars, manVars, fnVars, running, got, err, mainPc, trim, carVars, histStop,
                   histCmd>>


\* ------------------------------------------------------------------------
\* Calls of Picarx.drive
\* ------------------------------------------------------------------------

\* where a control step returns to: the loop of Control.consume (sleep, then
\* the loop test) in the threaded program, the direct caller otherwise
ReturnPc == IF mainPc = "off" THEN "idle" ELSE "loop"

\* Control.control(bus.read()) of the line-following Control:
\* self.car.drive(speed, angle * self.scale)
ControlCall ==
    /\ pc["control"] = "call"
    /\ LET a == LFControlArgs(got["control"], FollowScale)
       IN  IF ~a.ok
           THEN /\ pc' = [pc EXCEPT !["control"] = "crashed"]
                /\ err' = [err EXCEPT !["control"] = a.err]
                /\ lastCmd' = "control"
                /\ UNCHANGED <<val, driveCallers, lastDrive>>
           ELSE /\ driveCallers' = driveCallers \cup {"control"}
                /\ IF DriveBind(a.v).ok
                   THEN /\ val' = [val EXCEPT !["control"] = DriveBind(a.v).v]
                        /\ pc' = [pc EXCEPT !["control"] = "drive_set"]
                        /\ lastDrive' = <<"control">> \o DriveBind(a.v).v
                        /\ UNCHANGED <<err, lastCmd>>
                   ELSE /\ pc' = [pc EXCEPT !["control"] = "crashed"]
                        /\ err' = [err EXCEPT !["control"] = DriveBind(a.v).err]
                        /\ lastCmd' = "control"
                        /\ UNCHANGED <<val, lastDrive>>
    /\ got' = [got EXCEPT !["control"] = None]
    /\ UNCHANGED <<calVars, callVars, manVars, fnVars, busVars, running, mainPc, trim, carVars, histStop, oaIn>>

\* Picarx.drive -> set_turn_angle(angle): self.turn_angle = value;
\* self.steering_survo.angle(value + self.steering_survo_trim)
DriveSet(c) ==
    /\ pc[c] = "drive_set"
    /\ turn_angle' = val[c][2]
    /\ steer' = RAdd(val[c][2], RInt(servo_trim.steering))
    /\ pc' = [pc EXCEPT ![c] = "drive_read"]
    /\ UNCHANGED <<calVars, callVars, manVars, fnVars, busVars, running, got, val, err, mainPc, trim, motor,
                   dcur, histStop, histCmd>>

\* _forward / _backward: current_angle = self.turn_angle
DriveRead(c) ==
    /\ pc[c] = "drive_read"
    /\ dcur' = [dcur EXCEPT ![c] = turn_angle]
    /\ pc' = [pc EXCEPT ![c] = "drive_left"]
    /\ UNCHANGED <<calVars, callVars, manVars, fnVars, busVars, running, got, val, err, mainPc, trim,
                   turn_angle, steer, motor, histStop, histCmd>>

\* _forward / _backward: self.left_motor.set_speed(...)
DriveLeft(c) ==
    /\ pc[c] = "drive_left"
    /\ motor' = [motor EXCEPT !["left"] =
                    MotorSetSpeed(DrivePowers(val[c][1], dcur[c])[1],
                                  motor_direction["left"], MotorTrim["left"])]
    /\ pc' = [pc EXCEPT ![c] = "drive_right"]
    /\ UNCHANGED <<calVars, callVars, manVars, fnVars, busVars, running, got, val, err, mainPc, trim,
                   turn_angle, steer, dcur, histStop, histCmd>>

\* _forward / _backward: self.right_motor.set_speed(...); drive returns
DriveRight(c) ==
    /\ pc[c] = "drive_right"
    /\ motor' = [motor EXCEPT !["right"] =
                    MotorSetSpeed(DrivePowers(val[c][1], dcur[c])[2],
                                  motor_direction["right"], MotorTrim["right"])]
    /\ pc' = [pc EXCEPT ![c] = ReturnPc]
    /\ val' = [val EXCEPT ![c] = None]
    /\ dcur' = [dcur EXCEPT ![c] = RZero]
    /\ lastCmd' = c
    /\ UNCHANGED <<calVars, callVars, manVars, fnVars, busVars, running, got, err, mainPc, trim,
                   turn_angle, steer, histStop, driveCallers, lastDrive, oaIn>>

\* ------------------------------------------------------------------------
\* The threaded line-following program
\* ------------------------------------------------------------------------

Next ==
    \/ Calibrate
    \/ \E t \in Tasks : Start(t)
    \/ \E t \in Tasks : StopFlag(t)
    \/ \E t \in Tasks : Join(t)
    \/ \E s \in Sides : ExitMotor(s)
    \/ \E t \in Tasks : ProduceInit(t)
    \/ \E t \in Tasks : LoopTest(t)
    \/ SensorWork
    \/ \E t \in Tasks : RdAcquire(t)
    \/ \E t \in Tasks : RdCS(t)
    \/ Compute
    \/ \E t \in Tasks : WrAcquire(t)
    \/ \E t \in Tasks : WrCS(t)
    \/ ControlCall
    \/ \E c \in {"control"} : DriveSet(c)
    \/ \E c \in {"control"} : DriveRead(c)
    \/ \E c \in {"control"} : DriveLeft(c)
    \/ \E c \in {"control"} : DriveRight(c)

Spec == Init /\ [][Next]_vars

TypeOK ==
    /\ \A b \in Buses : lock[b] \in {"free"} \cup Tasks
    /\ \A t \in Tasks : running[t] \in {"unset", "true", "false"}
    /\ \A t \in Tasks : afterStop[t] \in 0..MaxAfterStop


\* ------------------------------------------------------------------------
\* Two control chains on one car: the line-following step of
\* examples/line_following/follow.py and the obstacle-avoidance classes of
\* ultrasonic.py, each handed the same Picarx
\* ------------------------------------------------------------------------

\* readings the calibrated photosensor can return
Readings == {<<0, 0, 0>>, <<100, 500, 100>>, <<50, 500, 900>>, <<900, 500, 50>>}

\* raw distances of the ranging sensor (negative: its timeout sentinel)
Distances == {-1, 5, 30, 100}

\* Interpreter(min_distance) and Control(car, speed) of ultrasonic.py
MinDistances == {1, 30}
OASpeeds == {50}

InitArb ==
    /\ message = [b \in Buses |-> None]
    /\ lock = [b \in Buses |-> "free"]
    /\ running = [t \in Tasks |-> "unset"]
    /\ pc = [t \in Tasks \cup {"oa"} |->
                IF t \in {"control", "oa"} THEN "idle" ELSE "unstarted"]
    /\ got = [t \in Tasks \cup {"oa"} |-> None]
    /\ val = [t \in Tasks \cup {"oa"} |-> None]
    /\ err = [t \in Tasks \cup {"oa"} |-> "none"]
    /\ mainPc = "off"
    /\ trim = <<0, 0, 0>>
    /\ CarInit
    /\ stopped = [t \in Tasks |-> FALSE]
    /\ afterStop = [t \in Tasks |-> 0]
    /\ lastWrite = [b \in Buses |-> None]
    /\ written = [b \in Buses |-> {}]
    /\ driveCallers = {}
    /\ lastCmd = "none"
    /\ lastDrive = None
    /\ oaIn = None
    /\ fnIn = None
    /\ fnOut = Raise("none")
    /\ NoCallsYet

\* follow.py: controller.control(interpreter.detect_direction(sensor.read()))
\* up to the evaluation of the argument of control
LFStep ==
    /\ mainPc = "off"
    /\ pc["control"] = "idle"
    /\ \E r \in Readings :
          got' = [got EXCEPT !["control"] =
                    detect_direction(r, NoiseThresh,
                        InterpreterSensitivity(DefaultSensitivity, TRUE)).v]
    /\ pc' = [pc EXCEPT !["control"] = "call"]
    /\ UNCHANGED <<calVars, callVars, manVars, fnVars, busVars, running, val, err, mainPc, trim, carVars,
                   histStop, histCmd>>

\* ultrasonic.py: control.control(interpreter.calculate_speed(sensor.read()))
\* Control.control calls self.car.drive(self.speed * speed_scalar)
OAStep ==
    /\ mainPc = "off"
    /\ pc["oa"] = "idle"
    /\ \E raw \in Distances, md \in MinDistances, sp \in OASpeeds :
          LET s == calculate_speed(UltrasonicRead(raw), md)
              b == DriveBind(OAControlArgs(sp, s))
          IN  /\ oaIn' = <<sp, s, turn_angle, raw, UltrasonicRead(raw)>>
              /\ driveCallers' = driveCallers \cup {"oa"}
              /\ IF b.ok
                 THEN /\ val' = [val EXCEPT !["oa"] = b.v]
                      /\ pc' = [pc EXCEPT !["oa"] = "drive_set"]
                      /\ err' = [err EXCEPT !["oa"] = "none"]
                      /\ lastDrive' = <<"oa">> \o b.v
                      /\ lastCmd' = lastCmd
                 ELSE /\ err' = [err EXCEPT !["oa"] = b.err]
                      /\ lastCmd' = "oa"
                      /\ UNCHANGED <<val, pc, lastDrive>>
    /\ UNCHANGED <<calVars, callVars, manVars, fnVars, busVars, running, got, mainPc, trim, carVars, histStop>>

NextArb ==
    \/ LFStep
    \/ OAStep
    \/ ControlCall
    \/ \E c \in {"control", "oa"} : DriveSet(c)
    \/ \E c \in {"control", "oa"} : DriveRead(c)
    \/ \E c \in {"control", "oa"} : DriveLeft(c)
    \/ \E c \in {"control", "oa"} : DriveRight(c)

SpecArb == InitArb /\ [][NextArb]_vars


\* ------------------------------------------------------------------------
\* Properties
\* ------------------------------------------------------------------------

Readers == {"interpreter", "control"}

\* C1: once stop() has cleared a task's running flag, the task performs at
\* most one further work invocation and, back at its loop test, finds the
\* flag cleared and leaves the loop (so that the join of stop() returns) -
\* also when stop() comes before the thread's first statement.
C1_StopEndsTask ==
    \A t \in Tasks :
        stopped[t] => /\ afterStop[t] <= 1
                      /\ (pc[t] = "loop" => running[t] = "false")

\* C2: at most one control object ever calls Picarx.drive on the car: the
\* line-following Control and the obstacle-avoidance Control never both do.
C2_SingleDriveCaller == Cardinality(driveCallers) <= 1

\* C3: a task that reads a bus nobody has written yet does not fail: no
\* task is ever ended by the TypeError of handling the empty value None.
C3_EmptyReadTolerated == \A t \in Tasks : err[t] # "TypeError"

InCS(t, b) ==
    \/ pc[t] = "rd_cs" /\ RdBus(t) = b
    \/ pc[t] = "wr_cs" /\ WrBus(t) = b

\* C4: Bus.read and Bus.write exclude each other (never two tasks inside the
\* critical sections of one bus), and every value a reader holds is the
\* initial None or a value that was passed to a completed write of that bus.
C4_BusAtomic ==
    /\ \A b \in Buses : Cardinality({t \in Tasks : InCS(t, b)}) <= 1
    /\ \A b \in Buses : \A t \in Tasks : InCS(t, b) => lock[b] = t
    /\ \A t \in Readers :
          pc[t] \in {"compute", "call"} =>
              got[t] \in {None} \cup written[RdBus(t)]

\* C4 witness: the interpreter reads a written sensor bus inside the
\* critical section while the sensor waits to write the same bus.
C4_Witness ==
    /\ pc["interpreter"] = "rd_cs"
    /\ pc["sensor"] = "wr_acq"
    /\ message["sensor_bus"] # None

BusOpPcs == {"rd_acq", "rd_cs", "wr_acq", "wr_cs"}
OpBus(t) == IF pc[t] \in {"rd_acq", "rd_cs"} THEN RdBus(t) ELSE WrBus(t)
BusOpEnabled(t) ==
    ENABLED (RdAcquire(t) \/ RdCS(t) \/ WrAcquire(t) \/ WrCS(t))

\* C5: a bus operation never waits for the other party: a task at a read or
\* a write can take its next step whatever the bus holds (written or not,
\* read or not), unless another task is inside the critical section of that
\* bus, and that task can always leave it.
C5_NonBlocking ==
    \A t \in Tasks :
        pc[t] \in BusOpPcs =>
            \/ BusOpEnabled(t)
            \/ \E u \in Tasks \ {t} :
                  /\ lock[OpBus(t)] = u
                  /\ InCS(u, OpBus(t))
                  /\ BusOpEnabled(u)

\* C5 witness: the control task has read the never-written control bus and
\* got None, while the sensor is overwriting a message that the (not yet
\* running) interpreter never read.
C5_Witness ==
    /\ pc["control"] = "call"
    /\ got["control"] = None
    /\ written["control_bus"] = {}
    /\ pc["interpreter"] = "init"
    /\ pc["sensor"] = "wr_cs"
    /\ message["sensor_bus"] # None

\* C6: a completed read returns the argument of the most recent completed
\* write of that bus (None before any write).
C6_LastValueWins ==
    [][\A t \in Readers :
          (pc[t] = "rd_cs" /\ pc'[t] # "rd_cs") =>
              got'[t] = lastWrite[RdBus(t)]]_vars

\* C6 witness: after two different values were written to the sensor bus the
\* interpreter holds the later one.
C6_Witness ==
    /\ pc["interpreter"] = "compute"
    /\ Cardinality(written["sensor_bus"]) >= 2
    /\ got["interpreter"] = lastWrite["sensor_bus"]
    /\ got["interpreter"] # None

\* C7: once stop() has set a task's running flag to false, the flag stays
\* false: no later step of any thread sets it back to running.
C7_StopIsMonotone == \A t \in Tasks : stopped[t] => running[t] = "false"

\* C8: a task ended by an error holds no bus lock (the buses stay usable by
\* its siblings) and no longer reports itself as running: its task-local
\* flag shows the failure.
C8_FailureIsolatedAndFlagged ==
    \A t \in Tasks :
        pc[t] = "crashed" => /\ \A b \in Buses : lock[b] # t
                             /\ running[t] # "true"

MotorsOff == \A s \in Sides : motor[s].duty = RZero

\* C9: after an obstacle-avoidance control step with scalar 0 and a nonzero
\* commanded speed, both wheel duties are 0 (no other control step being
\* under way).
C9_ArbitrationToZero ==
    (/\ lastCmd = "oa"
     /\ oaIn[1] # 0
     /\ oaIn[2] = 0
     /\ pc["control"] = "idle") => MotorsOff

\* C10: an obstacle-avoidance control step with speed sp and scalar s issues
\* drive(sp * s, angle) with the steering angle unchanged and a speed of
\* magnitude at most |sp|.
C10_ScaledDrive ==
    lastCmd = "oa" =>
        /\ err["oa"] = "none"
        /\ lastDrive = <<"oa", RInt(oaIn[1] * oaIn[2]), oaIn[3]>>
        /\ Abs(oaIn[1] * oaIn[2]) <= Abs(oaIn[1])


\* ------------------------------------------------------------------------
\* Direct calls of Picarx.drive (maneuver.py, lane_following.py): one caller,
\* arbitrary speed and angle
\* ------------------------------------------------------------------------

MaxSpeedStep == 3
MaxAngleStep == 6

\* speeds and angles a caller passes: multiples of 50 and of 10, and the
\* fractional speed 0.3 of lane_following.py
KinSpeeds == {RInt(50 * k) : k \in -MaxSpeedStep..MaxSpeedStep} \cup {<<3, 10>>}
KinAngles == {RInt(10 * k) : k \in -MaxAngleStep..MaxAngleStep}

\* car.drive(speed, angle) called directly; the caller uses the thread slot
\* of the control object
DriveCall ==
    /\ mainPc = "off"
    /\ pc["control"] = "idle"
    /\ \E speed \in KinSpeeds, angle \in KinAngles :
          LET b == DriveBind(<<speed, angle>>)
          IN  /\ val' = [val EXCEPT !["control"] = b.v]
              /\ lastDrive' = <<"control">> \o b.v
    /\ driveCallers' = driveCallers \cup {"control"}
    /\ pc' = [pc EXCEPT !["control"] = "drive_set"]
    /\ UNCHANGED <<calVars, callVars, manVars, fnVars, busVars, running, got, err, mainPc, trim, carVars,
                   histStop, lastCmd, oaIn>>

NextKin ==
    \/ DriveCall
    \/ \E c \in {"control"} : DriveSet(c)
    \/ \E c \in {"control"} : DriveRead(c)
    \/ \E c \in {"control"} : DriveLeft(c)
    \/ \E c \in {"control"} : DriveRight(c)

SpecKin == InitArb /\ [][NextKin]_vars

\* the latest call drive(speed, angle) has returned
DriveReturned ==
    /\ lastDrive # None
    /\ pc["control"] = "idle"

\* what Motor.set_speed(speed) leaves on the given wheel
WheelAfter(side, speed) ==
    MotorSetSpeed(speed, MotorDirection[side], MotorTrim[side])

\* C11: once drive(speed, 0) has returned, for every speed (positive, zero
\* or negative), the left motor is as set_speed(speed) leaves it and the
\* right motor as set_speed(-speed) leaves it: no power scale is applied
C11_StraightDrive ==
    (DriveReturned /\ lastDrive[3] = RZero) =>
        /\ motor["left"] = WheelAfter("left", lastDrive[2])
        /\ motor["right"] = WheelAfter("right", RNeg(lastDrive[2]))

\* drive(-50, 0) has returned: left wheel reversed, right wheel forward
C11_Witness ==
    /\ DriveReturned
    /\ lastDrive = <<"control", RInt(-50), RZero>>
    /\ motor["left"] = [pin |-> "high", duty |-> RInt(50)]
    /\ motor["right"] = [pin |-> "low", duty |-> RInt(50)]

\* position of a wheel in the pair <<left, right>> of commanded speeds
WheelIndex(side) == IF side = "left" THEN 1 ELSE 2

\* C12: once drive(-s, angle) has returned, for s > 0 and a nonzero angle,
\* each wheel carries the magnitude it carries after drive(s, angle): the
\* wheel given the reduced power, and the scale, depend on the sign of the
\* angle only and not on the direction of travel
C12_SameInsideWheel ==
    (/\ DriveReturned
     /\ RLt(lastDrive[2], RZero)
     /\ lastDrive[3] # RZero) =>
        \A side \in Sides :
            motor[side].duty =
                RAbs(DrivePowers(RNeg(lastDrive[2]), lastDrive[3])[WheelIndex(side)])

\* C13: once drive(speed, angle) has returned, for speed > 0 and a nonzero
\* angle, with scale = (100 - min(|angle|, 40)) / 100: 0 < scale < 1, the
\* outside wheel carries exactly speed and the inside wheel speed * scale,
\* the wheels turn in opposite senses, and the inside wheel is the left one
\* for a positive angle and the right one for a negative angle
C13_InsideOutside ==
    (/\ DriveReturned
     /\ RLt(RZero, lastDrive[2])
     /\ lastDrive[3] # RZero) =>
        LET speed == lastDrive[2]
            angle == lastDrive[3]
            scale == RDiv(RSub(RInt(100), RMin(RAbs(angle), RInt(40))),
                          RInt(100))
            inside == IF RLt(RZero, angle) THEN "left" ELSE "right"
            outside == IF RLt(RZero, angle) THEN "right" ELSE "left"
        IN  /\ RLt(RZero, scale) /\ RLt(scale, RInt(1))
            /\ motor[outside].duty = speed
            /\ motor[inside].duty = RMul(speed, scale)
            /\ motor["left"].pin = "low"
            /\ motor["right"].pin = "high"

\* drive(50, 30) has returned: the left wheel carries 35, the right one 50
C13_Witness ==
    /\ DriveReturned
    /\ lastDrive = <<"control", RInt(50), RInt(30)>>
    /\ motor["left"] = [pin |-> "low", duty |-> RInt(35)]
    /\ motor["right"] = [pin |-> "high", duty |-> RInt(50)]

\* sign(angle) as a rational
RSign(x) == IF RLt(RZero, x) THEN RInt(1)
            ELSE IF RLt(x, RZero) THEN RInt(-1) ELSE RZero

\* C14: once drive(speed, angle) has returned with |angle| > 40, both wheels
\* are as drive(speed, 40 * sign(angle)) commands them and the power scale
\* equals its value at 40 degrees, while the steering servo was commanded
\* with the full requested angle plus the steering trim; for no angle is the
\* power scale below its value at 40 degrees
C14_Clamping ==
    DriveReturned =>
        LET speed == lastDrive[2]
            angle == lastDrive[3]
            at40 == RMul(RInt(40), RSign(angle))
        IN  /\ RLe(PowerScale(RInt(40)), PowerScale(angle))
            /\ RLt(RInt(40), RAbs(angle)) =>
                  /\ \A side \in Sides :
                        motor[side] =
                            WheelAfter(side,
                                       DrivePowers(speed, at40)[WheelIndex(side)])
                  /\ PowerScale(angle) = PowerScale(at40)
                  /\ steer = RAdd(angle, RInt(SteeringTrim))
                  /\ turn_angle = angle

\* drive(50, 60) has returned: the wheels carry 30 and 50 as for 40 degrees,
\* the servo stands at 60
C14_Witness ==
    /\ DriveReturned
    /\ lastDrive = <<"control", RInt(50), RInt(60)>>
    /\ motor["left"] = [pin |-> "low", duty |-> RInt(30)]
    /\ motor["right"] = [pin |-> "high", duty |-> RInt(50)]
    /\ steer = RInt(60)

\* C15: the duty-cycle percentage on each motor's PWM is never negative and
\* never above 100, whatever speed and angle drive was called with
C15_DutyInRange ==
    \A side \in Sides :
        /\ RLe(RZero, motor[side].duty)
        /\ RLe(motor[side].duty, RInt(100))

\* ------------------------------------------------------------------------
\* Construction of the car on a calibration store (picarx_improved.py,
\* sim_robot_hat/filedb.py)
\* ------------------------------------------------------------------------

\* Python values that fileDB.get can hand back
PyNone == [t |-> "none", i |-> 0, s |-> ""]
PyInt(i) == [t |-> "int", i |-> i, s |-> ""]
PyStr(s) == [t |-> "str", i |-> 0, s |-> s]

\* the keys Picarx.__init__ reads; Unset marks a key that was never set

\* sim_robot_hat.fileDB.get: return None
SimFileDBGet(store, name, default_value) == PyNone

\* robot_hat.fileDB.get: the stored text, or default_value for a missing key
HatFileDBGet(store, name, default_value) ==
    IF store[name] = Unset THEN default_value ELSE PyStr(store[name])

\* the import at the top of picarx_improved.py picks the implementation
FileDBGet(impl, store, name, default_value) ==
    IF impl = "sim"
    THEN SimFileDBGet(store, name, default_value)
    ELSE HatFileDBGet(store, name, default_value)

\* int(x) for the values a trim key can hold
PyIntOf(x) ==
    IF x.t = "none" THEN Raise("TypeError")
    ELSE IF x.t = "int" THEN Ok(x.i)
    ELSE IF x.s = "0" THEN Ok(0)
    ELSE IF x.s = "5" THEN Ok(5)
    ELSE IF x.s = "-3" THEN Ok(-3)
    ELSE Raise("ValueError")

\* [int(i.strip()) for i in x.strip("[]").split(",")]
PyDirectionsOf(x) ==
    IF x.t # "str" THEN Raise("AttributeError")
    ELSE IF x.s = "[1,1]" THEN Ok(<<1, 1>>)
    ELSE IF x.s = "[-1, 1]" THEN Ok(<<-1, 1>>)
    ELSE IF x.s = "[1, -1]" THEN Ok(<<1, -1>>)
    ELSE Raise("ValueError")

\* Motor.__init__: pwm_pin.period(...) and pwm_pin.prescaler(...); the
\* simulated PWM class defines neither
MotorInit(impl) ==
    IF impl = "sim" THEN Raise("AttributeError") ELSE Ok(<<>>)

\* Picarx.__init__(config, user): the calibration it ends with, or the first
\* exception raised on the way
PicarxInit(impl, store) ==
    LET steer_t == PyIntOf(FileDBGet(impl, store, "picarx_dir_servo", PyInt(0)))
        pan_t == PyIntOf(FileDBGet(impl, store, "picarx_cam_servo1", PyInt(0)))
        tilt_t == PyIntOf(FileDBGet(impl, store, "picarx_cam_servo2", PyInt(0)))
        dirs == PyDirectionsOf(FileDBGet(impl, store, "picarx_dir_motor",
                                         PyStr("[1,1]")))
    IN  IF ~steer_t.ok THEN Raise(steer_t.err)
        ELSE IF ~pan_t.ok THEN Raise(pan_t.err)
        ELSE IF ~tilt_t.ok THEN Raise(tilt_t.err)
        ELSE IF ~dirs.ok THEN Raise(dirs.err)
        ELSE IF ~MotorInit(impl).ok THEN Raise(MotorInit(impl).err)
        ELSE Ok([steering_survo_trim |-> steer_t.v,
                 pan_servo_trim |-> pan_t.v,
                 tilt_servo_trim |-> tilt_t.v,
                 default_motor_direction |-> dirs.v,
                 turn_angle |-> RZero])

\* calibration stores: each key unset or holding a text saved earlier
TrimTexts == {Unset, "0", "5", "-3"}
DirectionTexts == {Unset, "[1,1]", "[-1, 1]", "[1, -1]"}
Stores ==
    {s \in [ConfigKeys -> TrimTexts \cup DirectionTexts] :
        /\ s["picarx_dir_motor"] \in DirectionTexts
        /\ \A k \in ConfigKeys \ {"picarx_dir_motor"} : s[k] \in TrimTexts}
EmptyStore == [k \in ConfigKeys |-> Unset]

\* ------------------------------------------------------------------------
\* Stopping and resetting the car (picarx_improved.py)
\* ------------------------------------------------------------------------

\* Picarx.set_power(speed): both motors are given the same speed
SetPower(speed, directions, trims) ==
    [side \in Sides |-> MotorSetSpeed(speed, directions[side], trims[side])]

\* Picarx.stop(): self.set_power(0)
PicarxStop(directions, trims) == SetPower(RZero, directions, trims)

\* Picarx.set_pan_angle / set_tilt_angle: the angle sent to the servo,
\* -1 * (value + -1 * trim)
CameraServoAngle(value, trim_value) ==
    RMul(RInt(-1), RAdd(value, RMul(RInt(-1), RInt(trim_value))))

\* Picarx.reset(): stop(), set_pan_angle(0), set_turn_angle(0),
\* set_tilt_angle(0)
PicarxReset(directions, trims, servo_trims) ==
    [motor |-> PicarxStop(directions, trims),
     pan |-> CameraServoAngle(RZero, servo_trims.pan),
     turn_angle |-> RZero,
     steer |-> RAdd(RZero, RInt(servo_trims.steering)),
     tilt |-> CameraServoAngle(RZero, servo_trims.tilt)]

\* arguments of Motor.set_speed and the calibration of the motor it is
\* called on
MotorSpeeds == KinSpeeds \cup {<<1, 2000>>, <<-1, 2000>>}
MotorDirections == {1, -1}
MotorTrims == {0, 5, -5}
SetSpeedCalls ==
    {<<"set_speed", s, d, tr>> :
        s \in MotorSpeeds, d \in MotorDirections, tr \in MotorTrims}
StopCalls ==
    {<<name, d, tr>> :
        name \in {"stop", "reset"},
        d \in [Sides -> MotorDirections], tr \in [Sides -> MotorTrims]}

\* ------------------------------------------------------------------------
\* Direct calls of the interpreter functions: detect_direction of the
\* line-following Interpreter and calculate_speed of the ultrasonic one,
\* each applied once to arguments drawn when the call is made
\* ------------------------------------------------------------------------

MaxReading == 3
MaxDistance == 3

\* reading values: a band around zero, the values of the line-following
\* scenarios and a pair of opposite values beyond the default threshold
FnReadingValues ==
    (-MaxReading..MaxReading) \cup {-20, -5, 5, 50, 100, 500, 900}
FnReadings == {<<a, b, c>> : a \in FnReadingValues, b \in FnReadingValues,
                             c \in FnReadingValues}

\* noise_thresh arguments (default 10) and the sensitivity and polarity
\* arguments of Interpreter.__init__ (default 0.5, True)
FnNoiseThreshs == {0, 1, NoiseThresh}
FnSensitivities == {<<-1, 2>>, DefaultSensitivity, <<3, 2>>}

\* calls of start() and stop() made on one ColorSorter
MaxSorterCalls == 3

\* raw values the three ADC channels deliver, held constant while the
\* photosensor is calibrated and read
MaxCalibrations == 3
AdcValues == {0, 100, 500}
AdcReadings == {<<a, b, c>> : a \in AdcValues, b \in AdcValues,
                              c \in AdcValues}

\* distance and min_distance arguments of calculate_speed
FnDistances == (-1..MaxDistance) \cup Distances
FnMinDistances == (0..MaxDistance) \cup MinDistances

DetectCalls ==
    {<<"detect_direction", r, th, s, pol>> :
        r \in FnReadings, th \in FnNoiseThreshs, s \in FnSensitivities,
        pol \in BOOLEAN}
SpeedCalls ==
    {<<"calculate_speed", d, md>> : d \in FnDistances, md \in FnMinDistances}
SensorCalls == {<<"photosensor", raw>> : raw \in AdcReadings}
SorterCalls == {<<"ColorSorter", "__init__">>}
PicarxCalls ==
    {<<"Picarx", impl, store>> : impl \in {"hardware", "sim"}, store \in Stores}

\* a caller has evaluated the arguments of one call and is about to make it
InitFn ==
    /\ message = [b \in Buses |-> None]
    /\ lock = [b \in Buses |-> "free"]
    /\ running = [t \in Tasks |-> "unset"]
    /\ pc = [t \in Tasks \cup {"oa"} |->
                IF t = "interpreter" THEN "call"
                ELSE IF t \in {"control", "oa"} THEN "idle" ELSE "unstarted"]
    /\ got = [t \in Tasks \cup {"oa"} |-> None]
    /\ val = [t \in Tasks \cup {"oa"} |-> None]
    /\ err = [t \in Tasks \cup {"oa"} |-> "none"]
    /\ mainPc = "off"
    /\ trim = <<0, 0, 0>>
    /\ CarInit
    /\ stopped = [t \in Tasks |-> FALSE]
    /\ afterStop = [t \in Tasks |-> 0]
    /\ lastWrite = [b \in Buses |-> None]
    /\ written = [b \in Buses |-> {}]
    /\ driveCallers = {}
    /\ lastCmd = "none"
    /\ lastDrive = None
    /\ oaIn = None
    /\ \/ fnIn \in DetectCalls
       \/ fnIn \in SpeedCalls
       \/ fnIn \in PicarxCalls
       \/ fnIn \in SetSpeedCalls
       \/ fnIn \in SensorCalls
       \/ fnIn \in SorterCalls
       \/ fnIn \in StopCalls
    /\ fnOut = Raise("none")
    /\ NoCallsYet

\* Interpreter(sensitivity, polarity).detect_direction(readings, noise_thresh)
DetectCall ==
    /\ pc["interpreter"] = "call"
    /\ fnIn[1] = "detect_direction"
    /\ fnOut' = detect_direction(fnIn[2], fnIn[3],
                                 InterpreterSensitivity(fnIn[4], fnIn[5]))
    /\ pc' = [pc EXCEPT !["interpreter"] = "idle"]
    /\ UNCHANGED <<calVars, callVars, manVars, fnIn, busVars, running, got, val, err, mainPc, trim,
                   carVars, histStop, histCmd>>

\* Interpreter(min_distance).calculate_speed(distance)
SpeedCall ==
    /\ pc["interpreter"] = "call"
    /\ fnIn[1] = "calculate_speed"
    /\ fnOut' = Ok(calculate_speed(fnIn[2], fnIn[3]))
    /\ pc' = [pc EXCEPT !["interpreter"] = "idle"]
    /\ UNCHANGED <<calVars, callVars, manVars, fnIn, busVars, running, got, val, err, mainPc, trim,
                   carVars, histStop, histCmd>>

\* Picarx(config, user) on the given implementation and calibration store
PicarxCall ==
    /\ pc["interpreter"] = "call"
    /\ fnIn[1] = "Picarx"
    /\ fnOut' = PicarxInit(fnIn[2], fnIn[3])
    /\ pc' = [pc EXCEPT !["interpreter"] = "idle"]
    /\ UNCHANGED <<calVars, callVars, manVars, fnIn, busVars, running, got, val, err, mainPc, trim,
                   carVars, histStop, histCmd>>

\* Motor.set_speed(speed) on a motor with the given direction and trim
SetSpeedCall ==
    /\ pc["interpreter"] = "call"
    /\ fnIn[1] = "set_speed"
    /\ fnOut' = Ok(MotorSetSpeed(fnIn[2], fnIn[3], fnIn[4]))
    /\ pc' = [pc EXCEPT !["interpreter"] = "idle"]
    /\ UNCHANGED <<calVars, callVars, manVars, fnIn, busVars, running, got, val, err,
                   mainPc, trim, carVars, histStop, histCmd>>

\* Picarx.stop() / Picarx.reset() on a car whose motors have the given
\* directions and trims: the wheel states it leaves
StopCall ==
    /\ pc["interpreter"] = "call"
    /\ fnIn[1] \in {"stop", "reset"}
    /\ fnOut' = Ok(IF fnIn[1] = "stop"
                   THEN PicarxStop(fnIn[2], fnIn[3])
                   ELSE PicarxReset(fnIn[2], fnIn[3], ServoTrims).motor)
    /\ pc' = [pc EXCEPT !["interpreter"] = "idle"]
    /\ UNCHANGED <<calVars, callVars, manVars, fnIn, busVars, running, got, val, err,
                   mainPc, trim, carVars, histStop, histCmd>>

\* Sensor.calibrate(): the trims become self.read()
SensorCalibrate ==
    /\ fnIn[1] = "photosensor"
    /\ calibrations < MaxCalibrations
    /\ trim' = SensorRead(fnIn[2], trim)
    /\ calibrations' = calibrations + 1
    /\ fnOut' = Raise("none")
    /\ UNCHANGED <<calVars, extraStops, callArgs, sorter, sorterCalls, manVars, fnIn, busVars, running, pc,
                   got, val, err, mainPc, carVars, histStop, histCmd>>

\* Sensor.read() with the channels at the same raw values
SensorReadCall ==
    /\ fnIn[1] = "photosensor"
    /\ fnOut' = Ok(SensorRead(fnIn[2], trim))
    /\ UNCHANGED <<calVars, callVars, manVars, fnIn, busVars, running, pc, got, val,
                   err, mainPc, trim, carVars, histStop, histCmd>>

\* sorter.start() on the constructed ColorSorter
SorterStart ==
    /\ fnIn[1] = "ColorSorter"
    /\ sorterCalls < MaxSorterCalls
    /\ fnIn' = <<"ColorSorter", "start">>
    /\ fnOut' = ColorSorterStart(sorter).res
    /\ sorter' = ColorSorterStart(sorter).obj
    /\ sorterCalls' = sorterCalls + 1
    /\ UNCHANGED <<calVars, extraStops, callArgs, calibrations, manVars,
                   busVars, running, pc, got, val, err, mainPc, trim,
                   carVars, histStop, histCmd>>

\* sorter.stop() on the constructed ColorSorter
SorterStop ==
    /\ fnIn[1] = "ColorSorter"
    /\ sorterCalls < MaxSorterCalls
    /\ fnIn' = <<"ColorSorter", "stop">>
    /\ fnOut' = ColorSorterStop(sorter).res
    /\ sorter' = ColorSorterStop(sorter).obj
    /\ sorterCalls' = sorterCalls + 1
    /\ UNCHANGED <<calVars, extraStops, callArgs, calibrations, manVars,
                   busVars, running, pc, got, val, err, mainPc, trim,
                   carVars, histStop, histCmd>>

NextFn ==
    \/ SorterStart
    \/ SorterStop
    \/ SensorCalibrate
    \/ SensorReadCall
    \/ DetectCall
    \/ SpeedCall
    \/ PicarxCall
    \/ SetSpeedCall
    \/ StopCall

SpecFn == InitFn /\ [][NextFn]_vars

\* the call of the named function has returned or raised
FnDone(name) ==
    /\ fnIn[1] = name
    /\ pc["interpreter"] = "idle"

\* C16: every call of detect_direction on integer readings returns a value:
\* none raises
C16_DetectTotal ==
    FnDone("detect_direction") => fnOut.ok

\* the readings of the latest call after each zero is replaced by 1
Subst(x) == IF x = 0 THEN 1 ELSE x

\* C17: detect_direction agrees with the reference function: with each zero
\* reading replaced by 1 it returns 0 when |left - right| < noise_thresh,
\* whatever the middle reading; otherwise sensitivity * (-(mid - right) /
\* (mid + right)) when right - left > 0 and sensitivity * ((mid - left) /
\* (mid + left)) when right - left <= 0; where the reference divides by zero
\* the call raises that error
C17_MatchesReference ==
    FnDone("detect_direction") =>
        LET left == Subst(fnIn[2][1])
            mid == Subst(fnIn[2][2])
            right == Subst(fnIn[2][3])
            sensitivity == InterpreterSensitivity(fnIn[4], fnIn[5])
            div == IF right - left > 0 THEN mid + right ELSE mid + left
        IN  IF Abs(left - right) < fnIn[3]
            THEN fnOut = Ok(RZero)
            ELSE IF div = 0
            THEN fnOut = Raise("ZeroDivisionError")
            ELSE IF right - left > 0
            THEN fnOut = Ok(RMul(sensitivity, RNeg(Rat(mid - right, mid + right))))
            ELSE fnOut = Ok(RMul(sensitivity, Rat(mid - left, mid + left)))

\* detect_direction([100, 500, 100], 10) has returned 0 although the middle
\* reading is far from the outer ones
C17_Witness ==
    /\ FnDone("detect_direction")
    /\ fnIn[2] = <<100, 500, 100>>
    /\ fnIn[3] = NoiseThresh
    /\ fnOut = Ok(RZero)

\* the latest call of detect_direction, made with the default polarity, a
\* positive sensitivity and readings that are not negative, took the
\* right - left > 0 branch, and its right reading exceeds the middle one
RightBranchAboveMiddle ==
    /\ FnDone("detect_direction")
    /\ fnIn[5] = TRUE
    /\ RLt(RZero, fnIn[4])
    /\ \A i \in 1..3 : fnIn[2][i] >= 0
    /\ Subst(fnIn[2][3]) - Subst(fnIn[2][1]) > 0
    /\ ~(Abs(Subst(fnIn[2][1]) - Subst(fnIn[2][3])) < fnIn[3])
    /\ fnIn[2][3] > fnIn[2][2]

\* C18 as stated: with the default polarity, detect_direction returns a
\* negative bias whenever the right - left > 0 branch is taken and the right
\* reading exceeds the middle reading, in particular for (50, 500, 900) with
\* the default threshold and sensitivity
C18_NegativeBias ==
    RightBranchAboveMiddle =>
        /\ fnOut.ok
        /\ RLt(fnOut.v, RZero)

\* C18 amended: for (50, 500, 900) with the default threshold, sensitivity
\* and polarity, detect_direction takes the right - left > 0 branch and
\* returns the positive bias 1/7; more generally, with the default polarity,
\* a positive sensitivity and readings that are not negative, the bias is
\* positive whenever that branch is taken and the right reading exceeds the
\* middle reading
C18_PositiveBias ==
    RightBranchAboveMiddle =>
        /\ fnOut.ok
        /\ RLt(RZero, fnOut.v)
        /\ (/\ fnIn[2] = <<50, 500, 900>>
            /\ fnIn[3] = NoiseThresh
            /\ fnIn[4] = DefaultSensitivity) => fnOut.v = <<1, 7>>

\* detect_direction([50, 500, 900]) with the defaults has returned 1/7
C18_Witness ==
    /\ RightBranchAboveMiddle
    /\ fnIn = <<"detect_direction", <<50, 500, 900>>, NoiseThresh,
                DefaultSensitivity, TRUE>>
    /\ fnOut = Ok(<<1, 7>>)

\* C19: for readings whose three values are equal (zero and negative values
\* included) detect_direction returns 0, whatever the noise threshold, the
\* sensitivity and the polarity
C19_EqualReadingsZero ==
    (/\ FnDone("detect_direction")
     /\ fnIn[2][1] = fnIn[2][2]
     /\ fnIn[2][2] = fnIn[2][3]) => fnOut = Ok(RZero)

\* detect_direction([-3, -3, -3], 0) has returned 0 from the second branch:
\* with a threshold of 0 the early return is not taken
C19_Witness ==
    /\ FnDone("detect_direction")
    /\ fnIn[2] = <<-3, -3, -3>>
    /\ fnIn[3] = 0
    /\ fnOut = Ok(RZero)

\* C20: calculate_speed(distance) returns 0 exactly when distance is below
\* min_distance and 1 otherwise, distance = min_distance included; its
\* result is always 0 or 1
C20_SpeedGate ==
    FnDone("calculate_speed") =>
        /\ fnOut.ok
        /\ fnOut.v \in {0, 1}
        /\ fnOut.v = 0 <=> fnIn[2] < fnIn[3]

\* calculate_speed(5) with a minimum distance of 30 has returned 0
C20_Witness ==
    /\ FnDone("calculate_speed")
    /\ fnIn = <<"calculate_speed", 5, 30>>
    /\ fnOut = Ok(0)

\* C21: a Picarx built on an empty calibration store, on the hardware or
\* on the simulated implementation, is constructed without error and starts
\* with all three servo trims 0 and motor directions [1, 1]
C21_EmptyStoreDefaults ==
    (FnDone("Picarx") /\ fnIn[3] = EmptyStore) =>
        /\ fnOut.ok
        /\ fnOut.v.steering_survo_trim = 0
        /\ fnOut.v.pan_servo_trim = 0
        /\ fnOut.v.tilt_servo_trim = 0
        /\ fnOut.v.default_motor_direction = <<1, 1>>

\* ------------------------------------------------------------------------
\* Further calls of stop() on a task whose first stop() has returned
\* ------------------------------------------------------------------------

MaxExtraStops == 1

\* position of a main-thread step in MainOrder
MainIdx(p) == CHOOSE i \in 1..Len(MainOrder) : MainOrder[i] = p

\* the first X.stop() of task t has returned (its join is behind the main
\* thread)
FirstStopReturned(t) == MainIdx(mainPc) > MainIdx("join_" \o t)

\* X.stop() called again: self.running = False; thread.join() returns at
\* once because the thread has ended
StopAgain(t) ==
    /\ FirstStopReturned(t)
    /\ extraStops[t] < MaxExtraStops
    /\ pc[t] \in {"done", "crashed"}
    /\ running' = [running EXCEPT ![t] = "false"]
    /\ extraStops' = [extraStops EXCEPT ![t] = @ + 1]
    /\ UNCHANGED <<calVars, callArgs, calibrations, sorter, sorterCalls,
                   manVars, fnVars, busVars, pc, got,
                   val, err,
                   mainPc, trim, carVars, histStop, histCmd>>

NextStop ==
    \/ Next
    \/ \E t \in Tasks : StopAgain(t)

SpecStop == Init /\ [][NextStop]_vars

\* C22: a stop() called on a task whose first stop() has returned returns
\* normally and changes nothing: before and after it the running flag is
\* false and the task has exited, and every other part of the state is as
\* the first call left it
C22_StopIdempotent ==
    [][\A t \in Tasks :
          extraStops'[t] # extraStops[t] =>
              /\ running[t] = "false" /\ running'[t] = "false"
              /\ pc[t] \in {"done", "crashed"} /\ pc'[t] = pc[t]
              /\ UNCHANGED <<running, pc, busVars, got, val, err, mainPc,
                             trim, carVars, histStop, histCmd>>]_vars

\* the bias the interpreter of follow_line computes from a sensor message
PipelineBias(v) ==
    detect_direction(v, NoiseThresh,
                     InterpreterSensitivity(DefaultSensitivity, TRUE)).v

\* C23: in every reachable state of the threaded pipeline a task inside
\* Bus.write is the Sensor on the sensor bus or the Interpreter on the
\* control bus, the Control task is never inside Bus.write, and every value
\* written to the control bus is detect_direction of a value written to the
\* sensor bus
C23_SingleWriter ==
    /\ \A t \in Tasks :
          pc[t] = "wr_cs" =>
              \/ t = "sensor" /\ lock["sensor_bus"] = t
              \/ t = "interpreter" /\ lock["control_bus"] = t
    /\ pc["control"] \notin {"wr_acq", "wr_cs"}
    /\ \A b \in Buses : message[b] # None => message[b] \in written[b]
    /\ \A x \in written["control_bus"] :
          \E v \in written["sensor_bus"] : x = PipelineBias(v)

\* the control bus holds a bias the interpreter derived from a reading that
\* the sensor wrote
C23_Witness ==
    /\ message["control_bus"] # None
    /\ written["sensor_bus"] # {}
    /\ \E v \in written["sensor_bus"] : message["control_bus"] = PipelineBias(v)

\* ------------------------------------------------------------------------
\* Two tasks calling Picarx.drive on the same car, one call each
\* ------------------------------------------------------------------------

RaceSpeeds == {RInt(50), RInt(-50)}
RaceAngles == {RZero, RInt(30), RInt(-30)}

\* car.drive(speed, angle) called by task c
DriveCallBy(c) ==
    /\ mainPc = "off"
    /\ pc[c] = "idle"
    /\ callArgs[c] = None
    /\ \E speed \in RaceSpeeds, angle \in RaceAngles :
          LET b == DriveBind(<<speed, angle>>)
          IN  /\ val' = [val EXCEPT ![c] = b.v]
              /\ callArgs' = [callArgs EXCEPT ![c] = b.v]
              /\ lastDrive' = <<c>> \o b.v
    /\ driveCallers' = driveCallers \cup {c}
    /\ pc' = [pc EXCEPT ![c] = "drive_set"]
    /\ UNCHANGED <<calVars, extraStops, calibrations, sorter, sorterCalls,
                   manVars, fnVars, busVars,
                   running, got, err,
                   mainPc, trim, carVars, histStop, lastCmd, oaIn>>

NextRace ==
    \/ \E c \in {"control", "oa"} : DriveCallBy(c)
    \/ \E c \in {"control", "oa"} : DriveSet(c)
    \/ \E c \in {"control", "oa"} : DriveRead(c)
    \/ \E c \in {"control", "oa"} : DriveLeft(c)
    \/ \E c \in {"control", "oa"} : DriveRight(c)

SpecRace == InitArb /\ [][NextRace]_vars

\* both wheels are as the single call drive(args) of one caller leaves them
WheelsOfCall(args) ==
    \A side \in Sides :
        motor[side] =
            WheelAfter(side, DrivePowers(args[1], args[2])[WheelIndex(side)])

\* C24: when two tasks have called drive(s1, a1) and drive(s2, a2) on the
\* same car and both calls have returned, in any interleaving, the two wheel
\* powers applied are those of one single call: no speed of one call is
\* combined with the power scale of the other, and no left wheel of one call
\* is paired with the right wheel of the other
C24_DriveAtomic ==
    (/\ \A c \in {"control", "oa"} : callArgs[c] # None /\ pc[c] = "idle") =>
        \E c \in {"control", "oa"} : WheelsOfCall(callArgs[c])

C26_CalibrationStable ==
    fnIn[1] = "photosensor" =>
        /\ calibrations >= 1 =>
              /\ trim = fnIn[2]
              /\ fnOut.ok => fnOut.v = <<0, 0, 0>>
        /\ fnOut.ok => \A i \in 1..3 : fnOut.v[i] >= 0


\* C27: the distance the ultrasonic Sensor.read reports is never negative;
\* a negative raw reading is reported as 0, the interpreter maps it to the
\* scalar 0 for every positive minimum clearance, and the control step made
\* on it leaves the car stopped (no other control step being under way)
C27_TimeoutStops ==
    lastCmd = "oa" =>
        /\ oaIn[5] >= 0
        /\ oaIn[4] < 0 =>
              /\ oaIn[5] = 0
              /\ oaIn[2] = 0
              /\ pc["control"] = "idle" => MotorsOff


\* the latest call of detect_direction, made on readings that are not
\* negative (as Sensor.read produces them)
DetectOnSensorReadings ==
    /\ FnDone("detect_direction")
    /\ \A i \in 1..3 : fnIn[2][i] >= 0

\* the steering angle Control.control passes to drive for the bias returned
\* by the latest call, with the angle scale of follow_line
CommandedAngle == LFControlArgs(fnOut.v, FollowScale).v[2]

\* the stored sensitivity is in [-1, 1] with its sign set by polarity, and
\* with the sensitivity 0.5 of the pipeline the commanded angle is below 25
\* in magnitude, hence in [-40, 40]
SensitivityAndAngleBounds ==
    LET sensitivity == InterpreterSensitivity(fnIn[4], fnIn[5])
    IN  /\ RLe(RAbs(sensitivity), RInt(1))
        /\ IF fnIn[5] THEN RLe(RZero, sensitivity) ELSE RLe(sensitivity, RZero)
        /\ fnOut.ok
        /\ fnIn[4] = DefaultSensitivity =>
              /\ RLt(RAbs(CommandedAngle), RInt(25))
              /\ RLe(RAbs(CommandedAngle), RInt(MaxScaleAngle))

\* C28 as stated: for readings that are not negative the stored sensitivity
\* is in [-1, 1] with its sign set by polarity, |detect_direction| is
\* strictly less than |sensitivity|, and with sensitivity 0.5 and angle
\* scale 50 the angle passed to drive is below 25 in magnitude
C28_StrictlyBelowSensitivity ==
    DetectOnSensorReadings =>
        /\ SensitivityAndAngleBounds
        /\ RLt(RAbs(fnOut.v),
               RAbs(InterpreterSensitivity(fnIn[4], fnIn[5])))

\* C28 amended: for readings that are not negative the stored sensitivity
\* is in [-1, 1] with its sign set by polarity, |detect_direction| is at
\* most |sensitivity| and strictly less when the stored sensitivity is not
\* 0, and with sensitivity 0.5 and angle scale 50 the angle passed to drive
\* is below 25 in magnitude
C28_AngleBounded ==
    DetectOnSensorReadings =>
        LET sensitivity == InterpreterSensitivity(fnIn[4], fnIn[5])
        IN  /\ SensitivityAndAngleBounds
            /\ RLe(RAbs(fnOut.v), RAbs(sensitivity))
            /\ sensitivity # RZero => RLt(RAbs(fnOut.v), RAbs(sensitivity))

\* detect_direction([1, 1, 900]) with the defaults has returned a bias for
\* which the commanded angle exceeds 24
C28_Witness ==
    /\ DetectOnSensorReadings
    /\ fnIn = <<"detect_direction", <<1, 1, 900>>, NoiseThresh,
                DefaultSensitivity, TRUE>>
    /\ fnOut.ok
    /\ RLt(RInt(24), CommandedAngle)



\* ------------------------------------------------------------------------
\* The maneuvers of examples/maneuver.py: parallel_parking and k_turn called
\* directly or from the interactive loop, on a car driven by nobody else.
\* The caller uses the thread slot of the control object for its drive calls
\* ------------------------------------------------------------------------

\* direction and speed arguments of a direct call
ManDirections == {"Left", "Right", "left", "l", ""}
ManSpeeds == {RInt(50), RInt(-50), RInt(100), <<3, 10>>, RZero}

\* __main__: the keys the user can answer the direction prompt with, and
\* those that pass 'if direction not in ["l", "r"]: continue'; the key is
\* passed on as it was typed, with the default speed
DirectionKeys == {"l", "r", "x"}
ValidatedKeys == {k \in DirectionKeys : k \in {"l", "r"}}
DefaultManSpeed == RInt(50)

ManeuverCalls ==
    {<<"direct", m, d, s>> :
        m \in {"parallel_parking", "k_turn"}, d \in ManDirections,
        s \in ManSpeeds}
    \cup {<<"main", m, d, DefaultManSpeed>> :
        m \in {"parallel_parking", "k_turn"}, d \in ValidatedKeys}

\* if direction not in ["Left", "Right"]: raise TypeError
ManeuverCheck(direction) ==
    IF direction \in {"Left", "Right"} THEN Ok(None) ELSE Raise("TypeError")

\* a parallel_parking that backs up right after driving forward
ParallelParkingScript_NoStop(direction, speed) ==
    LET s == RAbs(speed)
        angle == RInt(IF direction = "Right" THEN -30 ELSE 30)
    IN  << <<"drive", s, RZero>>,
           <<"drive", RNeg(s), angle>>, <<"stop">>,
           <<"drive", RNeg(s), RNeg(angle)>>, <<"stop">>,
           <<"drive", s, RZero>>, <<"stop">>,
           <<"reset">> >>

\* the car commands of parallel_parking after the direction test, in order
ParallelParkingScript(direction, speed) ==
    LET s == RAbs(speed)
        angle == RInt(IF direction = "Right" THEN -30 ELSE 30)
    IN  << <<"drive", s, RZero>>, <<"stop">>,
           <<"drive", RNeg(s), angle>>, <<"stop">>,
           <<"drive", RNeg(s), RNeg(angle)>>, <<"stop">>,
           <<"drive", s, RZero>>, <<"stop">>,
           <<"reset">> >>

\* the car commands of k_turn after the direction test, in order
KTurnScript(init_direction, speed) ==
    LET s == RAbs(speed)
        angle == RInt(IF init_direction = "Right" THEN 30 ELSE -30)
    IN  << <<"drive", s, angle>>, <<"stop">>,
           <<"drive", RNeg(s), RDiv(RNeg(angle), RInt(2))>>, <<"stop">>,
           <<"drive", s, angle>>,
           <<"reset">> >>

ManeuverScript(call) ==
    IF call[2] = "parallel_parking"
    THEN ParallelParkingScript(call[3], call[4])
    ELSE KTurnScript(call[3], call[4])

\* parallel_parking(car, direction, speed) / k_turn(car, init_direction,
\* speed) is called: the direction test
ManeuverCall ==
    /\ mainPc = "off"
    /\ pc["control"] = "idle"
    /\ manIn = None
    /\ \E call \in ManeuverCalls :
          /\ manIn' = call
          /\ IF ManeuverCheck(call[3]).ok
             THEN /\ manPc' = 1
                  /\ err' = err
             ELSE /\ manPc' = 0
                  /\ err' = [err EXCEPT !["control"] =
                                ManeuverCheck(call[3]).err]
    /\ UNCHANGED <<calVars, callVars, pan, tilt, fnVars, busVars, running, pc, got,
                   val, mainPc, trim, carVars, histStop, histCmd>>

\* the command the maneuver is at
ManCommand == ManeuverScript(manIn)[manPc]

ManAt(name) ==
    /\ mainPc = "off"
    /\ pc["control"] = "idle"
    /\ manIn # None
    /\ manPc \in 1..Len(ManeuverScript(manIn))
    /\ ManCommand[1] = name

\* car.drive(speed, angle) of a maneuver
ManDrive ==
    /\ ManAt("drive")
    /\ LET b == DriveBind(<<ManCommand[2], ManCommand[3]>>)
       IN  /\ val' = [val EXCEPT !["control"] = b.v]
           /\ lastDrive' = <<"control">> \o b.v
    /\ driveCallers' = driveCallers \cup {"control"}
    /\ pc' = [pc EXCEPT !["control"] = "drive_set"]
    /\ manPc' = manPc + 1
    /\ UNCHANGED <<calVars, callVars, pan, tilt, manIn, fnVars, busVars, running, got,
                   err, mainPc, trim, carVars, histStop, lastCmd, oaIn>>

\* car.stop() of a maneuver
ManStop ==
    /\ ManAt("stop")
    /\ motor' = PicarxStop(motor_direction, MotorTrim)
    /\ manPc' = manPc + 1
    /\ UNCHANGED <<calVars, callVars, pan, tilt, manIn, fnVars, busVars, running, pc,
                   got, val, err, mainPc, trim, turn_angle, steer, dcur,
                   histStop, histCmd>>

\* car.reset() of a maneuver, after which the maneuver returns
ManReset ==
    /\ ManAt("reset")
    /\ LET r == PicarxReset(motor_direction, MotorTrim, servo_trim)
       IN  /\ motor' = r.motor
           /\ pan' = r.pan
           /\ turn_angle' = r.turn_angle
           /\ steer' = r.steer
           /\ tilt' = r.tilt
    /\ manPc' = manPc + 1
    /\ UNCHANGED <<calVars, callVars, manIn, fnVars, busVars, running, pc, got, val,
                   err, mainPc, trim, dcur, histStop, histCmd>>

NextMan ==
    \/ ManeuverCall
    \/ ManDrive
    \/ ManStop
    \/ ManReset
    \/ \E c \in {"control"} : DriveSet(c)
    \/ \E c \in {"control"} : DriveRead(c)
    \/ \E c \in {"control"} : DriveLeft(c)
    \/ \E c \in {"control"} : DriveRight(c)

SpecMan == InitArb /\ [][NextMan]_vars

\* the maneuver has returned
ManReturned ==
    /\ manIn # None
    /\ manPc = Len(ManeuverScript(manIn)) + 1

\* the way a wheel pushes the car: 1 forward, -1 backward, 0 not driven
\* (_forward gives the left motor a positive and the right motor a negative
\* speed, _backward the opposite)
WheelSense(m, side) ==
    IF m[side].duty = RZero THEN 0
    ELSE IF (side = "left") = (m[side].pin = "low") THEN 1 ELSE -1

\* C29: during parallel_parking and k_turn, for every accepted direction
\* and every speed, no wheel is switched from driving the car forward to
\* driving it backward or back in one command and the two wheels never push
\* opposite ways: the motors are stopped in between; and when the maneuver
\* has returned both wheel duties are 0 and the steering, pan and tilt
\* servos are at 0
C29_StopBetweenReversals ==
    [][/\ \A s1 \in Sides, s2 \in Sides :
             WheelSense(motor, s1) * WheelSense(motor', s2) # -1
       /\ ManReturned' =>
             /\ \A side \in Sides : motor'[side].duty = RZero
             /\ turn_angle' = RZero
             /\ steer' = RZero
             /\ pan' = RZero
             /\ tilt' = RZero]_vars

\* parallel_parking(car, "Right", -50) has returned after driving backward
\* at -30 degrees and stopping
C29_Witness ==
    /\ ManReturned
    /\ manIn = <<"direct", "parallel_parking", "Right", RInt(-50)>>
    /\ lastDrive = <<"control", RInt(50), RZero>>
    /\ MotorsOff

\* the car as Picarx.__init__ leaves it: nothing commanded since
CarUntouched ==
    /\ motor = [s \in Sides |-> [pin |-> "low", duty |-> RZero]]
    /\ turn_angle = RZero
    /\ steer = RInt(SteeringTrim)
    /\ pan = RInt(PanTrim)
    /\ tilt = RInt(TiltTrim)
    /\ lastDrive = None
    /\ pc["control"] = "idle"

\* C30: a call of parallel_parking or k_turn with a direction other than
\* 'Left' and 'Right' raises TypeError and leaves the car as it was, and no
\* call the interactive loop makes after validating the direction key is
\* rejected
C30_LoopDirectionsAccepted ==
    manIn # None =>
        /\ manIn[3] \notin {"Left", "Right"} =>
              /\ err["control"] = "TypeError"
              /\ CarUntouched
        /\ manIn[1] = "main" => err["control"] # "TypeError"



\* ------------------------------------------------------------------------
\* Calibration of a constructed car (picarx_improved.py): the save methods
\* called between direct calls of drive, stop, reset and the set-angle
\* methods, one caller at a time. The car is built on robot_hat: on
\* sim_robot_hat Picarx.__init__ does not complete
\* ------------------------------------------------------------------------

MaxSaves == 2

\* arguments of the save methods and of the set-angle methods
MotorIds == 0..3
DirectionValues == {1, -1}
TrimValues == {0, 5}
AngleValues == {RZero, RInt(10)}
Servos == {"steering", "pan", "tilt"}

\* self.config_file.set(name, value): the store is handed the value for
\* the key
ConfigFileSet(store, name, value) == [store EXCEPT ![name] = value]

\* a save_motor_direction_calibration without the test of the motor id
SaveMotorDirection_NoCheck(motor_id, value, directions, store) ==
    LET d == IF motor_id = 1
             THEN [directions EXCEPT !["left"] = value]
             ELSE [directions EXCEPT !["right"] = value]
    IN  [res |-> Ok(None), directions |-> d,
         store |-> ConfigFileSet(store, "picarx_dir_motor",
                                PyList(<<d["left"], d["right"]>>))]

\* Picarx.save_motor_direction_calibration(motor, value): what it returns
\* or raises, and the motor directions and the store it leaves
SaveMotorDirection(motor_id, value, directions, store) ==
    IF motor_id \notin {1, 2}
    THEN [res |-> Raise("ValueError"), directions |-> directions,
          store |-> store]
    ELSE LET d == IF motor_id = 1
                  THEN [directions EXCEPT !["left"] = value]
                  ELSE [directions EXCEPT !["right"] = value]
         IN  [res |-> Ok(None), directions |-> d,
              store |-> ConfigFileSet(store, "picarx_dir_motor",
                                     PyList(<<d["left"], d["right"]>>))]

\* the store key of each servo trim
ServoKey(servo) ==
    IF servo = "steering" THEN "picarx_dir_servo"
    ELSE IF servo = "pan" THEN "picarx_cam_servo1"
    ELSE "picarx_cam_servo2"

\* the caller is between two calls
CallerIdle ==
    /\ mainPc = "off"
    /\ pc["control"] = "idle"

SaveMotorDirectionCall ==
    /\ CallerIdle
    /\ saves < MaxSaves
    /\ \E motor_id \in MotorIds, value \in DirectionValues :
          LET r == SaveMotorDirection(motor_id, value, motor_direction,
                                      config_file)
          IN  /\ fnIn' = <<"save_motor_direction_calibration", motor_id,
                           value>>
              /\ fnOut' = r.res
              /\ motor_direction' = r.directions
              /\ config_file' = r.store
    /\ saves' = saves + 1
    /\ UNCHANGED <<servo_trim, callVars, manVars, busVars, running, pc, got,
                   val, err, mainPc, trim, carVars, histStop, histCmd>>

\* save_steering_servo_calibration / save_pan_servo_calibration /
\* save_tilt_servo_calibration(value): the trim, the store and the servo
SaveServoCall ==
    /\ CallerIdle
    /\ saves < MaxSaves
    /\ \E servo \in Servos, value \in TrimValues :
          /\ fnIn' = <<"save_servo_calibration", servo, value>>
          /\ servo_trim' = [servo_trim EXCEPT ![servo] = value]
          /\ config_file' = ConfigFileSet(config_file, ServoKey(servo),
                                         PyText(value))
          /\ steer' = IF servo = "steering" THEN RInt(value) ELSE steer
          /\ pan' = IF servo = "pan" THEN RInt(value) ELSE pan
          /\ tilt' = IF servo = "tilt" THEN RInt(value) ELSE tilt
    /\ fnOut' = Ok(None)
    /\ saves' = saves + 1
    /\ UNCHANGED <<motor_direction, callVars, manPc, manIn, busVars, running,
                   pc, got, val, err, mainPc, trim, turn_angle, motor, dcur,
                   histStop, histCmd>>

\* car.drive(speed, angle) called directly
CarDrive ==
    /\ CallerIdle
    /\ \E speed \in RaceSpeeds, angle \in RaceAngles :
          LET b == DriveBind(<<speed, angle>>)
          IN  /\ val' = [val EXCEPT !["control"] = b.v]
              /\ lastDrive' = <<"control">> \o b.v
    /\ driveCallers' = driveCallers \cup {"control"}
    /\ pc' = [pc EXCEPT !["control"] = "drive_set"]
    /\ UNCHANGED <<calVars, callVars, manVars, fnVars, busVars, running, got,
                   err, mainPc, trim, carVars, histStop, lastCmd, oaIn>>

\* car.stop() called directly
CarStop ==
    /\ CallerIdle
    /\ motor' = PicarxStop(motor_direction, MotorTrim)
    /\ UNCHANGED <<calVars, callVars, manVars, fnVars, busVars, running, pc,
                   got, val, err, mainPc, trim, turn_angle, steer, dcur,
                   histStop, histCmd>>

\* car.reset() called directly
CarReset ==
    /\ CallerIdle
    /\ LET r == PicarxReset(motor_direction, MotorTrim, servo_trim)
       IN  /\ motor' = r.motor
           /\ pan' = r.pan
           /\ turn_angle' = r.turn_angle
           /\ steer' = r.steer
           /\ tilt' = r.tilt
    /\ UNCHANGED <<calVars, callVars, manPc, manIn, fnVars, busVars, running,
                   pc, got, val, err, mainPc, trim, dcur, histStop, histCmd>>

\* set_turn_angle / set_pan_angle / set_tilt_angle(value) called directly
CarSetAngle ==
    /\ CallerIdle
    /\ \E servo \in Servos, value \in AngleValues :
          /\ turn_angle' = IF servo = "steering" THEN value ELSE turn_angle
          /\ steer' = IF servo = "steering"
                      THEN RAdd(value, RInt(servo_trim.steering)) ELSE steer
          /\ pan' = IF servo = "pan"
                    THEN CameraServoAngle(value, servo_trim.pan) ELSE pan
          /\ tilt' = IF servo = "tilt"
                     THEN CameraServoAngle(value, servo_trim.tilt) ELSE tilt
    /\ UNCHANGED <<calVars, callVars, manPc, manIn, fnVars, busVars, running,
                   pc, got, val, err, mainPc, trim, motor, dcur, histStop,
                   histCmd>>

NextSave ==
    \/ SaveMotorDirectionCall
    \/ SaveServoCall
    \/ CarDrive
    \/ CarStop
    \/ CarReset
    \/ CarSetAngle
    \/ \E c \in {"control"} : DriveSet(c)
    \/ \E c \in {"control"} : DriveRead(c)
    \/ \E c \in {"control"} : DriveLeft(c)
    \/ \E c \in {"control"} : DriveRight(c)

SpecSave == InitArb /\ [][NextSave]_vars

\* the motor a motor id stands for
MotorSide(motor_id) == IF motor_id = 1 THEN "left" ELSE "right"

\* C31: a call save_motor_direction_calibration(motor, value) with a motor
\* id other than 1 and 2 raises ValueError and leaves both motor directions
\* and the store as they were; with motor id 1 or 2 it returns, sets the
\* direction of that motor only, leaves the servo trims and stores the pair
\* [left direction, right direction] under picarx_dir_motor, leaving the
\* other keys; and a step of drive, stop, reset or a set-angle method (any
\* step that is no save call) changes no servo trim, no motor direction and
\* nothing in the store
C31_CalibrationFrame ==
    [][/\ (saves' # saves
           /\ fnIn'[1] = "save_motor_direction_calibration") =>
             LET motor_id == fnIn'[2]
                 value == fnIn'[3]
             IN  IF motor_id \notin {1, 2}
                 THEN /\ fnOut' = Raise("ValueError")
                      /\ motor_direction' = motor_direction
                      /\ config_file' = config_file
                      /\ servo_trim' = servo_trim
                 ELSE /\ fnOut'.ok
                      /\ motor_direction' =
                            [motor_direction EXCEPT
                                ![MotorSide(motor_id)] = value]
                      /\ servo_trim' = servo_trim
                      /\ config_file' =
                            [config_file EXCEPT !["picarx_dir_motor"] =
                                PyList(<<motor_direction'["left"],
                                         motor_direction'["right"]>>)]
       /\ saves' = saves =>
             /\ motor_direction' = motor_direction
             /\ servo_trim' = servo_trim
             /\ config_file' = config_file]_vars

\* save_motor_direction_calibration(2, -1) was called on the new car and
\* drive(50, 0) after it: the right motor, given -50, turns with its pin
\* low; the store holds [1, -1]
C31_Witness ==
    /\ saves = 1
    /\ fnIn = <<"save_motor_direction_calibration", 2, -1>>
    /\ motor_direction = [left |-> 1, right |-> -1]
    /\ config_file["picarx_dir_motor"] = PyList(<<1, -1>>)
    /\ lastDrive = <<"control", RInt(50), RZero>>
    /\ pc["control"] = "idle"
    /\ motor["right"] = [pin |-> "low", duty |-> RInt(50)]



\* the detection state of the ColorSorter is as reset() leaves it
DetectionStateReset ==
    /\ sorter.count = 0
    /\ sorter.stop_running = "False"
    /\ sorter.color_list = <<>>
    /\ sorter.get_roi = FALSE
    /\ sorter.target_color = "()"
    /\ sorter.detect_color = "None"
    /\ sorter.start_pick_up = FALSE
    /\ sorter.start_count_t1 = TRUE

\* C32: on the constructed ColorSorter every start() returns normally with
\* the detection state reset and is_running true, and every stop() returns
\* normally with is_running false and stop_running true, in whatever order
\* and however often they are called: is_running reflects the last call
C32_SorterLifecycle ==
    (fnIn[1] = "ColorSorter" /\ sorterCalls > 0) =>
        /\ fnOut.ok
        /\ fnIn[2] = "start" =>
              /\ DetectionStateReset
              /\ sorter.is_running
        /\ fnIn[2] = "stop" =>
              /\ ~sorter.is_running
              /\ sorter.stop_running = "True"

========================================================================
